---- MODULE Spec2Model ----
(***************************************************************************)
(* Expense portal: the draft / submission / approval state machine and its *)
(* persistence in the remote spreadsheet (the Row Store).                  *)
(*                                                                         *)
(* The repository holds three variants of the application that share the   *)
(* same sheets:                                                            *)
(*   app.py            single-expense submission + admin approval          *)
(*   dev_app.py        monthly drafts (draft_id layout) + submission       *)
(*   dev_app_simple.py DraftManager drafts + submission + approval by id   *)
(* Each variant has its own next-state relation over the shared state.     *)
(*                                                                         *)
(* Every sheet cell is a string.  A sheet is the sequence of its data rows *)
(* (the header is sheet row 1, data row i is sheet row i + 1).             *)
(***************************************************************************)
EXTENDS Integers, Sequences, FiniteSets, TLC

VARIABLES
    ledger,      \* Expenses sheet, data rows (12 columns A..L)
    drafts,      \* Drafts sheet, data rows
    cache,       \* st.cache_data of read_sheet_to_df, per range key
    user_data,   \* st.session_state.user_data of every session
    draft,       \* st.session_state.current_draft of every session
    pc,          \* position of every session's running handler
    loc,         \* locals of every session's running handler
    result,      \* what the last handler of every session reported
    now,         \* the wall clock (datetime.now / time.time)
    failures,    \* store calls that have raised so far
    decisions,   \* approve / reject buttons pressed so far
    login_attempts, \* st.session_state.login_attempts of every session
    auth_log,    \* the authenticate calls of every session so far (history)
    authenticated, \* st.session_state.authenticated of every session
    login_time,  \* st.session_state.login_time: << >> while the key is absent
    last_used    \* when every session last logged in or ran a page (history)

vars == <<ledger, drafts, cache, user_data, draft, pc, loc, result, now,
          failures, decisions, login_attempts, auth_log, authenticated,
          login_time, last_used>>

---------------------------------------------------------------------------
(* Bounds of the model *)

MaxLedger == 3
MaxItems == 2
MaxFailures == 1
MaxDecisions == 2

Sessions == {"s1", "s2"}

---------------------------------------------------------------------------
(* Strings of numbers: str() and int() / float() over the bounded range *)

DecStr == <<"1", "2", "3", "4", "5", "6">>

str(n) == IF n = 0 THEN "0" ELSE DecStr[n]

IsIntStr(s) == s = "0" \/ \E n \in 1..Len(DecStr) : DecStr[n] = s

int(s) == IF s = "0" THEN 0 ELSE CHOOSE n \in 1..Len(DecStr) : DecStr[n] = s

\* str(float(x)) of a whole amount
FloatStr == <<"1.0", "2.0", "3.0", "4.0", "5.0", "6.0">>

float_str(x) == IF x = 0 THEN "0.0" ELSE FloatStr[x]

TimeStr == <<"t0", "t1", "t2", "t3">>

strftime(t) == TimeStr[t + 1]

---------------------------------------------------------------------------
(* The users sheet: teacher_id, name, pin, role *)

UsersSheet ==
    << [teacher_id |-> "T100", name |-> "Tara", pin |-> "1234", role |-> "member"],
       [teacher_id |-> "A1",   name |-> "Adam", pin |-> "9999", role |-> "admin"] >>

UserRecords == { UsersSheet[i] : i \in 1..Len(UsersSheet) }

\* The ids typed into the login form: an active user, an inactive one, an id
\* no row of the users sheet carries, a text that is too short and no text
LoginIds == {"T100", "T200", "Z999", "ab", ""}

\* The session keys of main.py before a login (main.py lines 19-20)
LoggedOut ==
    /\ authenticated = [s \in Sessions |-> FALSE]
    /\ login_time = [s \in Sessions |-> << >>]
    /\ last_used = [s \in Sessions |-> 0]

\* The sessions of the apps that keep their own login: the user is logged in,
\* no login_time is kept
LoggedIn ==
    /\ authenticated = [s \in Sessions |-> TRUE]
    /\ login_time = [s \in Sessions |-> << >>]
    /\ last_used = [s \in Sessions |-> 0]

\* st.session_state.login_attempts with no attempt recorded for any id (a
\* missing key and an empty list are treated alike by check_rate_limit)
NoAttempts == [id \in LoginIds |-> << >>]

---------------------------------------------------------------------------
(* The Row Store *)

LedgerCols == {"id", "teacher_id", "date", "category", "vendor", "amount",
               "description", "status", "submitted_date", "approved_by",
               "approved_date", "comments"}

BlankRow == [c \in LedgerCols |-> ""]

\* spreadsheets().values().update of one cell of sheet row r (r >= 2): a row
\* past the last one comes into being with its other cells blank.
SetCell(rows, r, col, value) ==
    LET i == r - 1
        padded == [k \in 1..(IF i > Len(rows) THEN i ELSE Len(rows)) |->
                      IF k <= Len(rows) THEN rows[k] ELSE BlankRow]
    IN  [padded EXCEPT ![i][col] = value]

\* The outcomes of one store call: it returns, or it raises (at most
\* MaxFailures times in a run of the model).
Outcomes == IF failures < MaxFailures THEN BOOLEAN ELSE {TRUE}

StoreCall(ok) == failures' = IF ok THEN failures ELSE failures + 1

NoCache == [cached |-> FALSE]

CacheKeys == {"expenses", "drafts"}

EmptyCache == [k \in CacheKeys |-> NoCache]

\* df.replace(['', 'None', 'NaN', 'nan'], '')
df_replace(cell) == IF cell \in {"", "None", "NaN", "nan"} THEN "" ELSE cell

DataFrame(rows) ==
    [i \in 1..Len(rows) |->
        [c \in DOMAIN rows[i] |->
            \* the json text of a draft is never one of the replaced tokens
            IF c = "expenses" THEN rows[i][c] ELSE df_replace(rows[i][c])]]

Sheet(key) == IF key = "expenses" THEN ledger ELSE drafts

\* read_sheet_to_df: the cached frame if there is one; else the sheet, or the
\* empty frame when the store call raises (ok = FALSE); either is cached.
read_sheet_to_df(key, ok) ==
    IF cache[key].cached THEN cache[key].df
    ELSE IF ok THEN DataFrame(Sheet(key)) ELSE << >>

\* The store is called only on a cache miss
ReadCall(key, ok) ==
    IF cache[key].cached THEN ok /\ UNCHANGED failures ELSE StoreCall(ok)

CacheAfterRead(key, ok) ==
    IF cache[key].cached THEN cache
    ELSE [cache EXCEPT ![key] = [cached |-> TRUE, df |-> read_sheet_to_df(key, ok)]]

---------------------------------------------------------------------------
(* app.py: single-expense submission *)

Categories == {"Select Category", "Travel"}
Vendors == {"Select Vendor", "Uber"}
Amounts == {0, 5}
Descriptions == {"", "taxi"}

Idle == [op |-> "none"]

\* What a handler reports: the value it returns and the message it shows
Res(op, ok, msg) == [op |-> op, ok |-> ok, msg |-> msg]

AllIdle == \A s \in Sessions : pc[s] = "idle"

\* app.py lines 339-350
app_validate(category, vendor, amount, description) ==
    /\ category # "Select Category"
    /\ vendor # "Select Vendor"
    /\ amount > 0
    /\ description # ""

\* The 12-cell row of a new expense
expense_row(next_id, teacher_id, category, vendor, amount, description, blank) ==
    [id |-> str(next_id), teacher_id |-> teacher_id, date |-> "2024-03-01",
     category |-> category, vendor |-> vendor, amount |-> float_str(amount),
     description |-> description, status |-> "pending",
     submitted_date |-> strftime(now), approved_by |-> blank,
     approved_date |-> blank, comments |-> blank]

\* show_expense_form, form submitted with invalid input: message, no store call
app_submit_invalid(s) ==
    /\ pc[s] = "idle"
    /\ (\E category \in Categories, vendor \in Vendors, amount \in Amounts,
           description \in Descriptions :
           ~app_validate(category, vendor, amount, description)) = TRUE
    /\ result' = [result EXCEPT ![s] = Res("submit", FALSE, "invalid_input")]
    /\ UNCHANGED <<ledger, drafts, cache, user_data, draft, pc, loc, now,
                   failures, decisions>>
    /\ UNCHANGED <<login_attempts, auth_log>>
    /\ UNCHANGED <<authenticated, login_time, last_used>>

\* show_expense_form up to the append: the id is the cached row count + 1
app_submit_read(s) ==
    /\ pc[s] = "idle"
    /\ Len(ledger) < MaxLedger
    /\ \E category \in Categories, vendor \in Vendors, amount \in Amounts,
          description \in Descriptions, ok \in Outcomes :
          /\ app_validate(category, vendor, amount, description)
          /\ ReadCall("expenses", ok)
          /\ LET next_id == Len(read_sheet_to_df("expenses", ok)) + 1
             IN  loc' = [loc EXCEPT ![s] =
                     [op |-> "submit",
                      row |-> expense_row(next_id, user_data[s].teacher_id, category,
                                          vendor, amount, description, " ")]]
          /\ cache' = CacheAfterRead("expenses", ok)
    /\ pc' = [pc EXCEPT ![s] = "append"]
    /\ UNCHANGED <<ledger, drafts, user_data, draft, result, now, decisions>>
    /\ UNCHANGED <<login_attempts, auth_log>>
    /\ UNCHANGED <<authenticated, login_time, last_used>>

\* append_to_sheet: the cache is cleared only after a successful append
app_submit_append(s) ==
    /\ pc[s] = "append"
    /\ \E ok \in Outcomes :
          /\ StoreCall(ok)
          /\ IF ok
             THEN /\ ledger' = Append(ledger, loc[s].row)
                  /\ cache' = EmptyCache
                  /\ result' = [result EXCEPT ![s] = Res("submit", TRUE, "submitted")]
             ELSE /\ UNCHANGED <<ledger, cache>>
                  /\ result' = [result EXCEPT ![s] = Res("submit", FALSE, "store_error")]
    /\ pc' = [pc EXCEPT ![s] = "idle"]
    /\ loc' = [loc EXCEPT ![s] = Idle]
    /\ UNCHANGED <<drafts, user_data, draft, now, decisions>>
    /\ UNCHANGED <<login_attempts, auth_log>>
    /\ UNCHANGED <<authenticated, login_time, last_used>>

---------------------------------------------------------------------------
(* app.py: the admin's approval controls *)

Decisions == {"approved", "rejected"}
CommentInputs == {"", "ok"}

\* The session's user is one of the roles of the users sheet
any_role(s) == user_data[s].role \in {"admin", "member"}

\* show_expense_history shows the table with the buttons to admins only
is_admin(s) == user_data[s].role = "admin"

\* show_expense_history + show_admin_expense_table: the frame is read (through
\* the cache), a pending row of it is shown with its buttons, and the pressed
\* button calls update_expense_status(int(row['id']) + 1, ...)
app_admin_click(s) ==
    /\ pc[s] = "idle"
    /\ is_admin(s)
    /\ decisions < MaxDecisions
    /\ decisions' = decisions + 1
    /\ \E ok \in Outcomes :
          LET df == read_sheet_to_df("expenses", ok)
          IN  /\ ReadCall("expenses", ok)
              /\ cache' = CacheAfterRead("expenses", ok)
              /\ \E i \in 1..Len(df), status \in Decisions, comments \in CommentInputs :
                    /\ df[i].status = "pending"
                    /\ IsIntStr(df[i].id)
                    /\ loc' = [loc EXCEPT ![s] =
                           [op |-> "decide", id |-> df[i].id,
                            row_number |-> int(df[i].id) + 1, status |-> status,
                            comments |-> comments,
                            approver |-> user_data[s].teacher_id]]
    /\ pc' = [pc EXCEPT ![s] = "upd_status"]
    /\ UNCHANGED <<ledger, drafts, user_data, draft, result, now>>
    /\ UNCHANGED <<login_attempts, auth_log>>
    /\ UNCHANGED <<authenticated, login_time, last_used>>

\* update_sheet_cell on the expenses sheet: the write and the cache clear on
\* success, nothing on failure; the caller ignores the returned flag.
update_sheet_cell(s, col, value, next_pc, ok) ==
    /\ StoreCall(ok)
    /\ IF ok
       THEN /\ ledger' = SetCell(ledger, loc[s].row_number, col, value)
            /\ cache' = EmptyCache
       ELSE UNCHANGED <<ledger, cache>>
    /\ pc' = [pc EXCEPT ![s] = next_pc]
    /\ IF next_pc = "idle"
       THEN /\ loc' = [loc EXCEPT ![s] = Idle]
            /\ result' = [result EXCEPT ![s] = Res("decide", TRUE, "decided")]
       ELSE UNCHANGED <<loc, result>>
    /\ UNCHANGED <<drafts, user_data, draft, now, decisions>>

\* update_expense_status, the status cell (column H)
app_update_status(s) ==
    /\ pc[s] = "upd_status"
    /\ \E ok \in Outcomes :
          update_sheet_cell(s, "status", loc[s].status,
                            IF loc[s].approver # "" THEN "upd_approver" ELSE "upd_date", ok)
    /\ UNCHANGED <<login_attempts, auth_log>>
    /\ UNCHANGED <<authenticated, login_time, last_used>>

\* update_expense_status, the approver cell (column J)
app_update_approver(s) ==
    /\ pc[s] = "upd_approver"
    /\ \E ok \in Outcomes :
          update_sheet_cell(s, "approved_by", loc[s].approver, "upd_date", ok)
    /\ UNCHANGED <<login_attempts, auth_log>>
    /\ UNCHANGED <<authenticated, login_time, last_used>>

\* update_expense_status, the approval date cell (column K)
app_update_date(s) ==
    /\ pc[s] = "upd_date"
    /\ \E ok \in Outcomes :
          update_sheet_cell(s, "approved_date", strftime(now),
                            IF loc[s].comments # "" THEN "upd_comments" ELSE "idle", ok)
    /\ UNCHANGED <<login_attempts, auth_log>>
    /\ UNCHANGED <<authenticated, login_time, last_used>>

\* update_expense_status, the comments cell (column L)
app_update_comments(s) ==
    /\ pc[s] = "upd_comments"
    /\ \E ok \in Outcomes :
          update_sheet_cell(s, "comments", loc[s].comments, "idle", ok)
    /\ UNCHANGED <<login_attempts, auth_log>>
    /\ UNCHANGED <<authenticated, login_time, last_used>>

\* The 30 second ttl of st.cache_data runs out
cache_expire ==
    /\ cache # EmptyCache
    /\ cache' = EmptyCache
    /\ UNCHANGED <<ledger, drafts, user_data, draft, pc, loc, result, now,
                   failures, decisions>>
    /\ UNCHANGED <<login_attempts, auth_log>>
    /\ UNCHANGED <<authenticated, login_time, last_used>>

InitStore ==
    /\ ledger = << >>
    /\ drafts = << >>
    /\ cache = EmptyCache
    /\ now = 0
    /\ failures = 0
    /\ decisions = 0
    /\ login_attempts = [s \in Sessions |-> NoAttempts]
    /\ auth_log = [s \in Sessions |-> << >>]

InitApp ==
    /\ InitStore
    /\ LoggedIn
    /\ user_data \in [Sessions -> UserRecords]
    /\ user_data["s1"].role = "admin"
    /\ draft = [s \in Sessions |-> [expenses |-> << >>, status |-> "new"]]
    /\ pc = [s \in Sessions |-> "idle"]
    /\ loc = [s \in Sessions |-> Idle]
    /\ result = [s \in Sessions |-> Res("none", TRUE, "")]

NextApp ==
    \/ \E s \in Sessions : app_submit_invalid(s)
    \/ \E s \in Sessions : app_submit_read(s)
    \/ \E s \in Sessions : app_submit_append(s)
    \/ \E s \in Sessions : app_admin_click(s)
    \/ \E s \in Sessions : app_update_status(s)
    \/ \E s \in Sessions : app_update_approver(s)
    \/ \E s \in Sessions : app_update_date(s)
    \/ \E s \in Sessions : app_update_comments(s)
    \/ cache_expire

SpecApp == InitApp /\ [][NextApp]_vars

---------------------------------------------------------------------------
(* dev_app_simple.py: DraftManager *)

MaxSimpleLedger == 2

\* The sessions whose user works with the expense form
FormSessions == {"s1"}

Month == "March"
Year == "2024"

DraftCols == <<"teacher_id", "month", "year", "expenses", "status",
               "created_date", "last_modified">>

RequiredFields == {"date", "category", "vendor", "description", "amount", "id"}

ValidDates == {"2024-03-01"}

\* int(x) / float(x) of a value json carries as a number
IsNumber(x) == x \in Int

NewDraft == [expenses |-> << >>, status |-> "new"]

\* json.dumps / json.loads of a list of expense dicts
json_dumps(expenses) == [json |-> expenses]

json_loads(blob) == blob.json

\* DraftManager._validate_expense
validate_expense(e) ==
    /\ RequiredFields \subseteq DOMAIN e
    /\ e.date \in ValidDates
    /\ IsNumber(e.amount)
    /\ IsNumber(e.id)

\* The data rows that hold the draft of (teacher_id, Month, Year)
DraftMatches(rows, teacher_id) ==
    { i \in 1..Len(rows) :
         /\ rows[i].teacher_id = teacher_id
         /\ rows[i].month = Month
         /\ rows[i].year = Year }

Min(S) == CHOOSE x \in S : \A y \in S : x <= y

\* The column names load_draft gives its DataFrame
LoadColumns == DraftCols \o <<"comments">>

\* The cells of the widest data row the read returns: a row save_draft wrote
\* has the cells A..G, since nothing the program writes fills column H
DataWidth(rows) ==
    IF \E i \in 1..Len(rows) : "comments" \in DOMAIN rows[i]
    THEN Len(LoadColumns) ELSE Len(DraftCols)

\* The cell holds text that json.loads parses
IsJson(blob) == "json" \in DOMAIN blob

\* A load that lets the failure of json.loads out to its caller
load_draft_raising(teacher_id, ok) ==
    LET m == DraftMatches(drafts, teacher_id)
    IN  IF ~ok \/ drafts = << >> \/ DataWidth(drafts) # Len(LoadColumns) \/ m = {}
        THEN NewDraft
        ELSE IF ~IsJson(drafts[Min(m)].expenses)
             THEN [raised |-> "JSONDecodeError"]
             ELSE [expenses |-> json_loads(drafts[Min(m)].expenses),
                   status |-> drafts[Min(m)].status]

\* DraftManager.load_draft: the first matching row. A fresh draft is returned
\* when the read raises, when the sheet has no data row, when
\* pd.DataFrame(values[1:], columns=columns) raises ValueError because the
\* data has fewer cells per row than the 8 column names, when no row matches,
\* when json.loads raises, and when an item lacks a required field
load_draft(teacher_id, ok) ==
    LET m == DraftMatches(drafts, teacher_id)
    IN  IF ~ok \/ drafts = << >> THEN NewDraft
        ELSE IF DataWidth(drafts) # Len(LoadColumns) THEN NewDraft
        ELSE IF m = {} THEN NewDraft
        ELSE LET row == drafts[Min(m)]
             IN  IF ~IsJson(row.expenses) THEN NewDraft
                 ELSE IF \E k \in 1..Len(json_loads(row.expenses)) :
                            ~(RequiredFields \subseteq
                                  DOMAIN json_loads(row.expenses)[k])
                 THEN NewDraft
                 ELSE [expenses |-> json_loads(row.expenses),
                       status |-> row.status,
                       created_date |-> row.created_date,
                       last_modified |-> row.last_modified]

\* DraftManager._find_draft_row: the sheet row of the first match, 0 for None
find_draft_row(teacher_id, ok) ==
    LET m == DraftMatches(drafts, teacher_id)
    IN  IF ~ok \/ m = {} THEN 0 ELSE Min(m) + 1

\* draft_data of save_draft, in column order
draft_data(teacher_id, expenses, status) ==
    [teacher_id |-> teacher_id, month |-> Month, year |-> Year,
     expenses |-> json_dumps(expenses), status |-> status,
     created_date |-> strftime(now), last_modified |-> strftime(now)]

---------------------------------------------------------------------------
(* dev_app_simple.py: the expense form *)

\* ExpenseApp._validate_expense_input
validate_expense_input(category, vendor, amount, description) ==
    /\ category # "Select Category"
    /\ vendor # "Select Vendor"
    /\ amount > 0
    /\ description # ""

\* show_expense_form, lines 393-403: the draft of the month is loaded
simple_load(s) ==
    /\ pc[s] = "idle"
    /\ \E ok \in Outcomes :
          /\ StoreCall(ok)
          /\ draft' = [draft EXCEPT ![s] = load_draft(user_data[s].teacher_id, ok)]
    /\ result' = [result EXCEPT ![s] = Res("load", TRUE, "")]
    /\ UNCHANGED <<ledger, drafts, cache, user_data, pc, loc, now, decisions>>
    /\ UNCHANGED <<login_attempts, auth_log>>
    /\ UNCHANGED <<authenticated, login_time, last_used>>

\* A save that validates only the first expense of the list
EnterSaveFirstOnly(s, op, expenses, status) ==
    IF expenses = << >> \/ validate_expense(expenses[1])
    THEN /\ pc' = [pc EXCEPT ![s] = "save_find"]
         /\ loc' = [loc EXCEPT ![s] =
                [op |-> op,
                 data |-> draft_data(user_data[s].teacher_id, expenses, status)]]
         /\ UNCHANGED result
    ELSE /\ result' = [result EXCEPT ![s] = Res(op, FALSE, "invalid_expense")]
         /\ UNCHANGED <<pc, loc>>

\* save_draft is entered: every expense is validated before any store call
EnterSave(s, op, expenses, status) ==
    IF \A k \in 1..Len(expenses) : validate_expense(expenses[k])
    THEN /\ pc' = [pc EXCEPT ![s] = "save_find"]
         /\ loc' = [loc EXCEPT ![s] =
                [op |-> op,
                 data |-> draft_data(user_data[s].teacher_id, expenses, status)]]
         /\ UNCHANGED result
    ELSE /\ result' = [result EXCEPT ![s] = Res(op, FALSE, "invalid_expense")]
         /\ UNCHANGED <<pc, loc>>

\* show_expense_form, "Add Expense" with input the form rejects
simple_add_invalid(s) ==
    /\ pc[s] = "idle"
    /\ (\E category \in Categories, vendor \in Vendors, amount \in Amounts,
           description \in Descriptions :
           ~validate_expense_input(category, vendor, amount, description)) = TRUE
    /\ result' = [result EXCEPT ![s] = Res("add", FALSE, "invalid_input")]
    /\ UNCHANGED <<ledger, drafts, cache, user_data, draft, pc, loc, now,
                   failures, decisions>>
    /\ UNCHANGED <<login_attempts, auth_log>>
    /\ UNCHANGED <<authenticated, login_time, last_used>>

\* show_expense_form, "Add Expense": id = number of items + 1, the item joins
\* the session's draft, and the draft is saved
simple_add(s) ==
    /\ pc[s] = "idle"
    /\ Len(draft[s].expenses) < MaxItems
    /\ \E category \in Categories, vendor \in Vendors, amount \in Amounts,
          description \in Descriptions :
          /\ validate_expense_input(category, vendor, amount, description)
          /\ LET current_expenses == draft[s].expenses
                 next_id == Len(current_expenses) + 1
                 new_expense == [id |-> next_id, date |-> "2024-03-01",
                                 category |-> category, vendor |-> vendor,
                                 description |-> description, amount |-> amount]
                 expenses == Append(current_expenses, new_expense)
             IN  /\ draft' = [draft EXCEPT ![s].expenses = expenses]
                 /\ EnterSave(s, "add", expenses, "draft")
    /\ UNCHANGED <<ledger, drafts, cache, user_data, now, failures, decisions>>
    /\ UNCHANGED <<login_attempts, auth_log>>
    /\ UNCHANGED <<authenticated, login_time, last_used>>

\* show_expense_form, "Save Draft"
simple_save(s) ==
    /\ pc[s] = "idle"
    /\ EnterSave(s, "save", draft[s].expenses, "draft")
    /\ UNCHANGED <<ledger, drafts, cache, user_data, draft, now, failures, decisions>>
    /\ UNCHANGED <<login_attempts, auth_log>>
    /\ UNCHANGED <<authenticated, login_time, last_used>>

\* _delete_expense: every item with the id goes, and the draft is saved
simple_delete(s) ==
    /\ pc[s] = "idle"
    /\ \E k \in 1..Len(draft[s].expenses) :
          LET expense_id == draft[s].expenses[k].id
              updated_expenses == SelectSeq(draft[s].expenses,
                                            LAMBDA e : e.id # expense_id)
          IN  /\ draft' = [draft EXCEPT ![s].expenses = updated_expenses]
              /\ EnterSave(s, "delete", updated_expenses, "draft")
    /\ UNCHANGED <<ledger, drafts, cache, user_data, now, failures, decisions>>
    /\ UNCHANGED <<login_attempts, auth_log>>
    /\ UNCHANGED <<authenticated, login_time, last_used>>

\* save_draft returns: what its caller does with the flag
LeaveSave(s, saved) ==
    /\ pc' = [pc EXCEPT ![s] = "idle"]
    /\ loc' = [loc EXCEPT ![s] = Idle]
    /\ IF loc[s].op = "submit"
       THEN /\ result' = [result EXCEPT ![s] =
                   [op |-> "submit", ok |-> saved,
                    msg |-> IF saved THEN "submitted" ELSE "store_error",
                    n |-> loc[s].n, appended |-> loc[s].appended]]
            /\ draft' = IF saved THEN [draft EXCEPT ![s] = NewDraft] ELSE draft
       ELSE /\ result' = [result EXCEPT ![s] =
                   Res(loc[s].op, saved, IF saved THEN "saved" ELSE "store_error")]
            /\ UNCHANGED draft

\* save_draft, _find_draft_row; "before" remembers the row as it was found
simple_save_find(s) ==
    /\ pc[s] = "save_find"
    /\ \E ok \in Outcomes :
          /\ StoreCall(ok)
          /\ LET existing_row == find_draft_row(user_data[s].teacher_id, ok)
             IN  IF existing_row # 0
                 THEN /\ pc' = [pc EXCEPT ![s] = "save_cell"]
                      /\ loc' = [loc EXCEPT ![s] =
                             [c \in DOMAIN loc[s] \cup {"row", "col", "before"} |->
                                 IF c = "row" THEN existing_row
                                 ELSE IF c = "col" THEN 1
                                 ELSE IF c = "before" THEN drafts[existing_row - 1]
                                 ELSE loc[s][c]]]
                 ELSE /\ pc' = [pc EXCEPT ![s] = "save_append"]
                      /\ UNCHANGED loc
    /\ UNCHANGED <<ledger, drafts, cache, user_data, draft, result, now, decisions>>
    /\ UNCHANGED <<login_attempts, auth_log>>
    /\ UNCHANGED <<authenticated, login_time, last_used>>

\* save_draft, one _update_cell of the existing row (columns A..G in turn);
\* the first failing update ends the save
simple_save_cell(s) ==
    /\ pc[s] = "save_cell"
    /\ \E ok \in Outcomes :
          /\ StoreCall(ok)
          /\ LET col == DraftCols[loc[s].col]
             IN  IF ok
                 THEN /\ drafts' = SetCell(drafts, loc[s].row, col, loc[s].data[col])
                      /\ IF loc[s].col < Len(DraftCols)
                         THEN /\ loc' = [loc EXCEPT ![s].col = @ + 1]
                              /\ UNCHANGED <<pc, result, draft>>
                         ELSE LeaveSave(s, TRUE)
                 ELSE /\ UNCHANGED drafts
                      /\ LeaveSave(s, FALSE)
    /\ UNCHANGED <<ledger, cache, user_data, now, decisions>>
    /\ UNCHANGED <<login_attempts, auth_log>>
    /\ UNCHANGED <<authenticated, login_time, last_used>>

\* save_draft, _append_draft of a new row
simple_save_append(s) ==
    /\ pc[s] = "save_append"
    /\ \E ok \in Outcomes :
          /\ StoreCall(ok)
          /\ drafts' = IF ok THEN Append(drafts, loc[s].data) ELSE drafts
          /\ LeaveSave(s, ok)
    /\ UNCHANGED <<ledger, cache, user_data, now, decisions>>
    /\ UNCHANGED <<login_attempts, auth_log>>
    /\ UNCHANGED <<authenticated, login_time, last_used>>

---------------------------------------------------------------------------
(* dev_app_simple.py: submission and approval *)

\* expense_data of _submit_expenses_for_approval
simple_expense_data(expense, teacher_id) ==
    [id |-> str(expense.id), teacher_id |-> teacher_id, date |-> expense.date,
     category |-> expense.category, vendor |-> expense.vendor,
     amount |-> float_str(expense.amount), description |-> expense.description,
     status |-> "pending", submitted_date |-> strftime(now),
     approved_by |-> "", approved_date |-> "", comments |-> ""]

SubmitRes(ok, msg, n, appended) ==
    [op |-> "submit", ok |-> ok, msg |-> msg, n |-> n, appended |-> appended]

\* A submit that takes the empty list through the loop: nothing is appended,
\* success is reported and the stored draft is marked submitted
simple_submit_empty_marks(s) ==
    /\ pc[s] = "idle"
    /\ draft[s].expenses = << >>
    /\ result' = [result EXCEPT ![s] = SubmitRes(TRUE, "submitted", 0, 0)]
    /\ drafts' = [i \in 1..Len(drafts) |->
                     IF i \in DraftMatches(drafts, user_data[s].teacher_id)
                     THEN [drafts[i] EXCEPT !.status = "submitted"]
                     ELSE drafts[i]]
    /\ UNCHANGED <<ledger, cache, user_data, draft, pc, loc, now,
                   failures, decisions>>
    /\ UNCHANGED <<login_attempts, auth_log>>
    /\ UNCHANGED <<authenticated, login_time, last_used>>

\* _submit_expenses_for_approval with no expense in the session's draft
simple_submit_empty(s) ==
    /\ pc[s] = "idle"
    /\ draft[s].expenses = << >>
    /\ result' = [result EXCEPT ![s] = SubmitRes(FALSE, "no_expenses", 0, 0)]
    /\ UNCHANGED <<ledger, drafts, cache, user_data, draft, pc, loc, now,
                   failures, decisions>>
    /\ UNCHANGED <<login_attempts, auth_log>>
    /\ UNCHANGED <<authenticated, login_time, last_used>>

\* _submit_expenses_for_approval is entered with a non-empty draft
simple_submit(s) ==
    /\ pc[s] = "idle"
    /\ draft[s].expenses # << >>
    /\ Len(ledger) + Len(draft[s].expenses) <= MaxSimpleLedger
    /\ pc' = [pc EXCEPT ![s] = "submit_append"]
    /\ loc' = [loc EXCEPT ![s] = [op |-> "submit", expenses |-> draft[s].expenses,
                                  k |-> 1]]
    /\ UNCHANGED <<ledger, drafts, cache, user_data, draft, result, now,
                   failures, decisions>>
    /\ UNCHANGED <<login_attempts, auth_log>>
    /\ UNCHANGED <<authenticated, login_time, last_used>>

\* one turn of the loop: append_to_sheet of the k-th expense; a failed append
\* ends the submission, the last append enters save_draft(status='submitted')
simple_submit_append(s) ==
    /\ pc[s] = "submit_append"
    /\ \E ok \in Outcomes :
          LET expenses == loc[s].expenses
              k == loc[s].k
              n == Len(expenses)
              teacher_id == user_data[s].teacher_id
          IN  /\ StoreCall(ok)
              /\ IF ok
                 THEN /\ ledger' = Append(ledger,
                                          simple_expense_data(expenses[k], teacher_id))
                      /\ cache' = EmptyCache
                      /\ UNCHANGED result
                      /\ IF k < n
                         THEN /\ loc' = [loc EXCEPT ![s].k = k + 1]
                              /\ UNCHANGED pc
                         ELSE /\ pc' = [pc EXCEPT ![s] = "save_find"]
                              /\ loc' = [loc EXCEPT ![s] =
                                     [op |-> "submit", n |-> n, appended |-> n,
                                      data |-> draft_data(teacher_id, expenses,
                                                          "submitted")]]
                 ELSE /\ result' = [result EXCEPT ![s] =
                             SubmitRes(FALSE, "store_error", n, k - 1)]
                      /\ pc' = [pc EXCEPT ![s] = "idle"]
                      /\ loc' = [loc EXCEPT ![s] = Idle]
                      /\ UNCHANGED <<ledger, cache>>
    /\ UNCHANGED <<drafts, user_data, draft, now, decisions>>
    /\ UNCHANGED <<login_attempts, auth_log>>
    /\ UNCHANGED <<authenticated, login_time, last_used>>

IdInputs == {"1", "2", "3"}

\* The lookup settles for the first data row when no id matches
find_expense_row_first(values, expense_id) ==
    LET m == { i \in 1..Len(values) : values[i].id = expense_id }
    IN  IF m = {} THEN (IF values = << >> THEN 0 ELSE 2) ELSE Min(m) + 1

\* update_expense_status, lines 960-967: the sheet row of the first data row
\* whose id cell equals str(expense_id), 0 when the loop ends without a break
find_expense_row(values, expense_id) ==
    LET m == { i \in 1..Len(values) : values[i].id = expense_id }
    IN  IF m = {} THEN 0 ELSE Min(m) + 1

DecideRes(ok, msg, expense_id, status, comments, approver) ==
    [op |-> "decide", ok |-> ok, msg |-> msg, id |-> expense_id,
     status |-> status, comments |-> comments, approver |-> approver]

\* update_expense_status: the ledger is read and the row looked up; a missing
\* row is reported; for a row that is found, the first self.update_sheet_cell
\* raises AttributeError (ExpenseApp of this file defines no such method),
\* which the handler catches: no cell is written
simple_update_expense_status(s) ==
    /\ pc[s] = "idle"
    /\ user_data[s].role = "admin"
    /\ \E expense_id \in IdInputs, status \in Decisions,
          comments \in CommentInputs, ok \in Outcomes :
          LET approver == user_data[s].teacher_id
              row_num == find_expense_row(ledger, expense_id)
              msg == IF ~ok THEN "error"
                     ELSE IF row_num = 0 THEN "not_found" ELSE "error"
          IN  /\ StoreCall(ok)
              /\ result' = [result EXCEPT ![s] =
                     DecideRes(FALSE, msg, expense_id, status, comments, approver)]
    /\ UNCHANGED <<ledger, drafts, cache, user_data, draft, pc, loc, now, decisions>>
    /\ UNCHANGED <<login_attempts, auth_log>>
    /\ UNCHANGED <<authenticated, login_time, last_used>>

InitSimple ==
    /\ InitStore
    /\ LoggedIn
    /\ user_data = [s1 |-> UsersSheet[1], s2 |-> UsersSheet[2]]
    /\ draft = [s \in Sessions |-> NewDraft]
    /\ pc = [s \in Sessions |-> "idle"]
    /\ loc = [s \in Sessions |-> Idle]
    /\ result = [s \in Sessions |-> Res("none", TRUE, "")]

\* Operations run one after another: one is entered only when none is under way
NextSimple ==
    \/ \E s \in FormSessions : AllIdle /\ simple_load(s)
    \/ \E s \in FormSessions : AllIdle /\ simple_add_invalid(s)
    \/ \E s \in FormSessions : AllIdle /\ simple_add(s)
    \/ \E s \in FormSessions : AllIdle /\ simple_save(s)
    \/ \E s \in FormSessions : AllIdle /\ simple_delete(s)
    \/ \E s \in FormSessions : AllIdle /\ simple_submit_empty(s)
    \/ \E s \in FormSessions : AllIdle /\ simple_submit(s)
    \/ \E s \in Sessions : AllIdle /\ simple_update_expense_status(s)
    \/ \E s \in Sessions : simple_save_find(s)
    \/ \E s \in Sessions : simple_save_cell(s)
    \/ \E s \in Sessions : simple_save_append(s)
    \/ \E s \in Sessions : simple_submit_append(s)

SpecSimple == InitSimple /\ [][NextSimple]_vars

---------------------------------------------------------------------------
(* dev_app.py: monthly drafts and their submission *)

DevDraftCols == <<"draft_id", "teacher_id", "month", "year", "expenses",
                  "status", "created_date", "last_modified_date">>

\* str(uuid.uuid4()): a value no earlier draft row carries
DraftIds == <<"u1", "u2", "u3", "u4">>

uuid4 == DraftIds[Len(drafts) + 1]

\* get_draft_expenses(month, year): the records of the user's rows for the
\* month in the order of the sheet, the json of each parsed (a stored draft
\* row always carries json text, never an empty cell)
get_draft_expenses(drafts_df, teacher_id) ==
    LET mine == SelectSeq(drafts_df, LAMBDA r : /\ r.teacher_id = teacher_id
                                                /\ r.month = Month
                                                /\ r.year = Year)
    IN  [i \in 1..Len(mine) |->
            [mine[i] EXCEPT !.expenses = json_loads(@)]]

\* show_monthly_expense_form, lines 538-548: the list the form works on
expenses_list_of(drafts_df, teacher_id) ==
    LET found == get_draft_expenses(drafts_df, teacher_id)
    IN  IF found # << >> THEN found[1].expenses ELSE << >>

\* find_draft_row: the sheet row of the user's first row for the month, 0 for
\* None
dev_find_draft_row(teacher_id, ok) ==
    LET m == DraftMatches(drafts, teacher_id)
    IN  IF ~ok \/ m = {} THEN 0 ELSE Min(m) + 1

\* The condition of "Add to Draft"
dev_validate(main_category, sub_category, item, amount, vendor) ==
    /\ main_category # ""
    /\ sub_category # ""
    /\ item # ""
    /\ amount > 0
    /\ vendor # "Select Vendor"

\* "Add to Draft" with input the form rejects
dev_add_invalid(s) ==
    /\ pc[s] = "idle"
    /\ (\E amount \in Amounts, vendor \in Vendors :
           ~dev_validate("Travel", "Local", "Taxi", amount, vendor)) = TRUE
    /\ result' = [result EXCEPT ![s] = Res("add", FALSE, "invalid_input")]
    /\ UNCHANGED <<ledger, drafts, cache, user_data, draft, pc, loc, now,
                   failures, decisions>>
    /\ UNCHANGED <<login_attempts, auth_log>>
    /\ UNCHANGED <<authenticated, login_time, last_used>>

\* "Add to Draft": the draft of the month is loaded through the read cache,
\* the new expense joins the list and save_draft_expenses is entered
dev_add(s) ==
    /\ pc[s] = "idle"
    /\ \E amount \in Amounts, vendor \in Vendors, description \in Descriptions,
          ok \in Outcomes :
          LET expenses_list == expenses_list_of(read_sheet_to_df("drafts", ok),
                                                user_data[s].teacher_id)
              new_expense == [date |-> "2024-03-01", main_category |-> "Travel",
                              sub_category |-> "Local", item |-> "Taxi",
                              vendor |-> vendor, amount |-> amount,
                              description |-> description]
          IN  /\ dev_validate("Travel", "Local", "Taxi", amount, vendor)
              /\ Len(expenses_list) < MaxItems
              /\ ReadCall("drafts", ok)
              /\ cache' = CacheAfterRead("drafts", ok)
              /\ loc' = [loc EXCEPT ![s] =
                     [op |-> "add",
                      expenses_list |-> Append(expenses_list, new_expense)]]
    /\ pc' = [pc EXCEPT ![s] = "dev_save_get"]
    /\ UNCHANGED <<ledger, drafts, user_data, draft, result, now, decisions>>
    /\ UNCHANGED <<login_attempts, auth_log>>
    /\ UNCHANGED <<authenticated, login_time, last_used>>

\* "Save as Draft": shown when the loaded list is not empty
dev_save(s) ==
    /\ pc[s] = "idle"
    /\ \E ok \in Outcomes :
          LET expenses_list == expenses_list_of(read_sheet_to_df("drafts", ok),
                                                user_data[s].teacher_id)
          IN  /\ expenses_list # << >>
              /\ ReadCall("drafts", ok)
              /\ cache' = CacheAfterRead("drafts", ok)
              /\ loc' = [loc EXCEPT ![s] =
                     [op |-> "save", expenses_list |-> expenses_list]]
    /\ pc' = [pc EXCEPT ![s] = "dev_save_get"]
    /\ UNCHANGED <<ledger, drafts, user_data, draft, result, now, decisions>>
    /\ UNCHANGED <<login_attempts, auth_log>>
    /\ UNCHANGED <<authenticated, login_time, last_used>>

DevEnd(s, ok, msg) ==
    /\ result' = [result EXCEPT ![s] = Res(loc[s].op, ok, msg)]
    /\ pc' = [pc EXCEPT ![s] = "idle"]
    /\ loc' = [loc EXCEPT ![s] = Idle]

\* save_draft_expenses, lines 328-338: the existing draft is looked up through
\* the read cache and draft_data is built; draft_id and created_date are kept
\* from the existing draft, the status is always 'draft'
dev_save_get(s) ==
    /\ pc[s] = "dev_save_get"
    /\ \E ok \in Outcomes :
          LET teacher_id == user_data[s].teacher_id
              existing_drafts == get_draft_expenses(read_sheet_to_df("drafts", ok),
                                                    teacher_id)
              exists == existing_drafts # << >>
              data ==
                  [draft_id |-> IF exists THEN existing_drafts[1].draft_id ELSE uuid4,
                   teacher_id |-> teacher_id, month |-> Month, year |-> Year,
                   expenses |-> json_dumps(loc[s].expenses_list),
                   status |-> "draft",
                   created_date |-> IF exists THEN existing_drafts[1].created_date
                                    ELSE strftime(now),
                   last_modified_date |-> strftime(now)]
          IN  /\ ReadCall("drafts", ok)
              /\ cache' = CacheAfterRead("drafts", ok)
              /\ loc' = [loc EXCEPT ![s] = [op |-> loc[s].op, data |-> data]]
              /\ pc' = [pc EXCEPT ![s] =
                     IF exists THEN "dev_save_find" ELSE "dev_save_append"]
    /\ UNCHANGED <<ledger, drafts, user_data, draft, result, now, decisions>>
    /\ UNCHANGED <<login_attempts, auth_log>>
    /\ UNCHANGED <<authenticated, login_time, last_used>>

\* save_draft_expenses, find_draft_row of the existing draft; with no row the
\* save returns False
dev_save_find(s) ==
    /\ pc[s] = "dev_save_find"
    /\ \E ok \in Outcomes :
          /\ StoreCall(ok)
          /\ LET draft_row == dev_find_draft_row(user_data[s].teacher_id, ok)
             IN  IF draft_row # 0
                 THEN /\ pc' = [pc EXCEPT ![s] = "dev_save_cell"]
                      /\ loc' = [loc EXCEPT ![s] =
                             [op |-> loc[s].op, data |-> loc[s].data,
                              row |-> draft_row, col |-> 1]]
                      /\ UNCHANGED result
                 ELSE DevEnd(s, FALSE, "not_saved")
    /\ UNCHANGED <<ledger, drafts, cache, user_data, draft, now, decisions>>
    /\ UNCHANGED <<login_attempts, auth_log>>
    /\ UNCHANGED <<authenticated, login_time, last_used>>

\* save_draft_expenses, one update_sheet_cell of the row (columns A..H in
\* turn); the outcome of the update is ignored
dev_save_cell(s) ==
    /\ pc[s] = "dev_save_cell"
    /\ \E ok \in Outcomes :
          /\ StoreCall(ok)
          /\ LET col == DevDraftCols[loc[s].col]
             IN  IF ok
                 THEN /\ drafts' = SetCell(drafts, loc[s].row, col, loc[s].data[col])
                      /\ cache' = EmptyCache
                 ELSE UNCHANGED <<drafts, cache>>
          /\ IF loc[s].col < Len(DevDraftCols)
             THEN /\ loc' = [loc EXCEPT ![s].col = @ + 1]
                  /\ UNCHANGED <<pc, result>>
             ELSE DevEnd(s, TRUE, "saved")
    /\ UNCHANGED <<ledger, user_data, draft, now, decisions>>
    /\ UNCHANGED <<login_attempts, auth_log>>
    /\ UNCHANGED <<authenticated, login_time, last_used>>

\* save_draft_expenses, append_to_sheet of a new draft row
dev_save_append(s) ==
    /\ pc[s] = "dev_save_append"
    /\ \E ok \in Outcomes :
          /\ StoreCall(ok)
          /\ IF ok
             THEN /\ drafts' = Append(drafts, loc[s].data)
                  /\ cache' = EmptyCache
             ELSE UNCHANGED <<drafts, cache>>
          /\ DevEnd(s, ok, IF ok THEN "saved" ELSE "store_error")
    /\ UNCHANGED <<ledger, user_data, draft, now, decisions>>
    /\ UNCHANGED <<login_attempts, auth_log>>
    /\ UNCHANGED <<authenticated, login_time, last_used>>

\* "Submit for Approval": shown when the loaded list is not empty;
\* submit_monthly_expenses is entered
dev_submit(s) ==
    /\ pc[s] = "idle"
    /\ \E ok \in Outcomes :
          LET expenses_list == expenses_list_of(read_sheet_to_df("drafts", ok),
                                                user_data[s].teacher_id)
          IN  /\ expenses_list # << >>
              /\ ReadCall("drafts", ok)
              /\ cache' = CacheAfterRead("drafts", ok)
              /\ loc' = [loc EXCEPT ![s] =
                     [op |-> "submit", expenses_list |-> expenses_list, k |-> 1]]
    /\ pc' = [pc EXCEPT ![s] = "dev_submit_read"]
    /\ UNCHANGED <<ledger, drafts, user_data, draft, result, now, decisions>>
    /\ UNCHANGED <<login_attempts, auth_log>>
    /\ UNCHANGED <<authenticated, login_time, last_used>>

\* expense_data of submit_monthly_expenses
dev_expense_data(next_id, teacher_id, expense) ==
    [id |-> str(next_id), teacher_id |-> teacher_id, date |-> expense.date,
     category |-> expense.category, vendor |-> expense.vendor,
     amount |-> float_str(expense.amount), description |-> expense.description,
     status |-> "pending", submitted_date |-> strftime(now),
     approved_by |-> " ", approved_date |-> " ", comments |-> " "]

\* One turn of the loop of submit_monthly_expenses: the row count is read
\* through the cache and expense_data is built. expense['category'] raises
\* KeyError for an expense without that key, and the handler returns False.
\* Otherwise the row is appended; after the last append the draft row is
\* marked submitted (find_draft_row and the update of column F, taken to
\* succeed: their outcome is ignored by the code).
dev_submit_read(s) ==
    /\ pc[s] = "dev_submit_read"
    /\ \E ok \in Outcomes :
          LET teacher_id == user_data[s].teacher_id
              expenses_list == loc[s].expenses_list
              n == Len(expenses_list)
              k == loc[s].k
              expense == expenses_list[k]
              next_id == Len(read_sheet_to_df("expenses", ok)) + 1
              draft_row == dev_find_draft_row(teacher_id, TRUE)
          IN  /\ ReadCall("expenses", ok)
              /\ IF "category" \notin DOMAIN expense
                 THEN /\ cache' = CacheAfterRead("expenses", ok)
                      /\ result' = [result EXCEPT ![s] =
                             SubmitRes(FALSE, "error", n, k - 1)]
                      /\ pc' = [pc EXCEPT ![s] = "idle"]
                      /\ loc' = [loc EXCEPT ![s] = Idle]
                      /\ UNCHANGED <<ledger, drafts>>
                 ELSE /\ ledger' = Append(ledger,
                                          dev_expense_data(next_id, teacher_id, expense))
                      /\ cache' = EmptyCache
                      /\ IF k < n
                         THEN /\ loc' = [loc EXCEPT ![s].k = k + 1]
                              /\ UNCHANGED <<pc, result, drafts>>
                         ELSE /\ drafts' = IF draft_row # 0
                                           THEN SetCell(drafts, draft_row, "status",
                                                        "submitted")
                                           ELSE drafts
                              /\ result' = [result EXCEPT ![s] =
                                     SubmitRes(TRUE, "submitted", n, n)]
                              /\ pc' = [pc EXCEPT ![s] = "idle"]
                              /\ loc' = [loc EXCEPT ![s] = Idle]
    /\ UNCHANGED <<user_data, draft, now, decisions>>
    /\ UNCHANGED <<login_attempts, auth_log>>
    /\ UNCHANGED <<authenticated, login_time, last_used>>

InitDev ==
    /\ InitStore
    /\ LoggedIn
    /\ user_data = [s1 |-> UsersSheet[1], s2 |-> UsersSheet[2]]
    /\ draft = [s \in Sessions |-> NewDraft]
    /\ pc = [s \in Sessions |-> "idle"]
    /\ loc = [s \in Sessions |-> Idle]
    /\ result = [s \in Sessions |-> Res("none", TRUE, "")]

NextDev ==
    \/ \E s \in FormSessions : dev_add_invalid(s)
    \/ \E s \in FormSessions : dev_add(s)
    \/ \E s \in FormSessions : dev_save(s)
    \/ \E s \in FormSessions : dev_submit(s)
    \/ \E s \in Sessions : dev_save_get(s)
    \/ \E s \in Sessions : dev_save_find(s)
    \/ \E s \in Sessions : dev_save_cell(s)
    \/ \E s \in Sessions : dev_save_append(s)
    \/ \E s \in Sessions : dev_submit_read(s)
    \/ cache_expire

SpecDev == InitDev /\ [][NextDev]_vars

---------------------------------------------------------------------------
(* dev_app_simple.py: the DraftManager called on its own *)

MaxTime == 1

GoodItem ==
    [id |-> 1, date |-> "2024-03-01", category |-> "Travel", vendor |-> "Uber",
     description |-> "taxi", amount |-> 5]

\* float('-5') parses
NegativeItem == [GoodItem EXCEPT !.amount = -5]

\* datetime.strptime(..., '%Y-%m-%d') raises ValueError
BadDateItem == [GoodItem EXCEPT !.date = "03/01/2024"]

\* no 'vendor' key
NoVendorItem ==
    [id |-> 1, date |-> "2024-03-01", category |-> "Travel",
     description |-> "taxi", amount |-> 5]

\* The expenses a caller may pass to save_draft
ItemInputs == {GoodItem, NegativeItem, BadDateItem, NoVendorItem}

ItemLists == UNION { [1..n -> ItemInputs] : n \in 0..MaxItems }

StatusInputs == {"draft", "submitted"}

\* A row typed into the sheet: the expenses cell holds text that is no JSON,
\* and column H holds a comment
HandRow ==
    [teacher_id |-> "T100", month |-> Month, year |-> Year,
     expenses |-> [text |-> "n/a"], status |-> "draft",
     created_date |-> "t0", last_modified |-> "t0", comments |-> "typed"]

\* A row typed into the sheet whose expenses cell is JSON: one item with
\* every required field and a date that is not %Y-%m-%d
HandRowBadDate ==
    [teacher_id |-> "T100", month |-> Month, year |-> Year,
     expenses |-> json_dumps(<<BadDateItem>>), status |-> "draft",
     created_date |-> "t0", last_modified |-> "t0", comments |-> "typed"]

\* save_draft(month, year, teacher_id, expenses, status) is called
draft_save(s) ==
    /\ pc[s] = "idle"
    /\ \E expenses \in ItemLists, status \in StatusInputs :
          EnterSave(s, "save", expenses, status)
    /\ UNCHANGED <<ledger, drafts, cache, user_data, draft, now, failures, decisions>>
    /\ UNCHANGED <<login_attempts, auth_log>>
    /\ UNCHANGED <<authenticated, login_time, last_used>>

\* The clock moves on
tick ==
    /\ now < MaxTime
    /\ now' = now + 1
    /\ UNCHANGED <<ledger, drafts, cache, user_data, draft, pc, loc, result,
                   failures, decisions>>
    /\ UNCHANGED <<login_attempts, auth_log>>
    /\ UNCHANGED <<authenticated, login_time, last_used>>

InitDraft ==
    /\ ledger = << >>
    /\ drafts \in {<< >>, <<HandRow>>, <<HandRowBadDate>>}
    /\ cache = EmptyCache
    /\ now = 0
    /\ failures = 0
    /\ decisions = 0
    /\ login_attempts = [s \in Sessions |-> NoAttempts]
    /\ auth_log = [s \in Sessions |-> << >>]
    /\ LoggedIn
    /\ user_data = [s \in Sessions |-> UsersSheet[1]]
    /\ draft = [s \in Sessions |-> NewDraft]
    /\ pc = [s \in Sessions |-> "idle"]
    /\ loc = [s \in Sessions |-> Idle]
    /\ result = [s \in Sessions |-> Res("none", TRUE, "")]

\* One caller, calls run one after another
NextDraft ==
    \/ \E s \in FormSessions : draft_save(s)
    \/ \E s \in FormSessions : simple_load(s)
    \/ \E s \in FormSessions : simple_save_find(s)
    \/ \E s \in FormSessions : simple_save_cell(s)
    \/ \E s \in FormSessions : simple_save_append(s)
    \/ tick

SpecDraft == InitDraft /\ [][NextDraft]_vars

\* save_draft is called with a valid list
draft_save_valid(s) ==
    /\ pc[s] = "idle"
    /\ \E status \in StatusInputs : EnterSave(s, "save", <<GoodItem>>, status)
    /\ UNCHANGED <<ledger, drafts, cache, user_data, draft, now, failures, decisions>>
    /\ UNCHANGED <<login_attempts, auth_log>>
    /\ UNCHANGED <<authenticated, login_time, last_used>>

\* Two sessions of one user, their store calls interleaved
NextDraftConc ==
    \/ \E s \in Sessions : draft_save_valid(s)
    \/ \E s \in Sessions : simple_save_find(s)
    \/ \E s \in Sessions : simple_save_cell(s)
    \/ \E s \in Sessions : simple_save_append(s)

SpecDraftConc == InitDraft /\ [][NextDraftConc]_vars

---------------------------------------------------------------------------
(* auth_manager.py: AuthManager *)

max_attempts == 3

\* seconds
lockout_duration == 300

\* Seconds that pass between two readings of time.time()
TickSeconds == 150

MaxClock == 300

\* authenticate calls of one session
MaxCalls == 5

\* The sessions that show the login page
LoginSessions == {"s1"}

\* The users sheet, columns A:E
LoginSheet ==
    << [teacher_id |-> "T100", name |-> "Tara", pin |-> "1234",
        role |-> "member", is_active |-> "TRUE"],
       [teacher_id |-> "T200", name |-> "Theo", pin |-> "1234",
        role |-> "member", is_active |-> "FALSE"] >>

\* The PINs typed into the login form
LoginPins == {"1234", "0000", "12", "12ab"}

\* len(), isalnum() and isdigit() of the texts typed into the login form
TextShape ==
    ("T100" :> [len |-> 4, isalnum |-> TRUE, isdigit |-> FALSE]) @@
    ("T200" :> [len |-> 4, isalnum |-> TRUE, isdigit |-> FALSE]) @@
    ("Z999" :> [len |-> 4, isalnum |-> TRUE, isdigit |-> FALSE]) @@
    ("ab"   :> [len |-> 2, isalnum |-> TRUE, isdigit |-> FALSE]) @@
    ("12ab" :> [len |-> 4, isalnum |-> TRUE, isdigit |-> FALSE]) @@
    (""     :> [len |-> 0, isalnum |-> FALSE, isdigit |-> FALSE]) @@
    ("1234" :> [len |-> 4, isalnum |-> TRUE, isdigit |-> TRUE]) @@
    ("0000" :> [len |-> 4, isalnum |-> TRUE, isdigit |-> TRUE]) @@
    ("12"   :> [len |-> 2, isalnum |-> TRUE, isdigit |-> TRUE])

validate_teacher_id(teacher_id) ==
    /\ teacher_id # ""
    /\ TextShape[teacher_id].len >= 4
    /\ TextShape[teacher_id].isalnum

\* validate_pin without the isdigit test
validate_pin_length(pin) ==
    /\ pin # ""
    /\ TextShape[pin].len = 4

validate_pin(pin) ==
    /\ pin # ""
    /\ TextShape[pin].len = 4
    /\ TextShape[pin].isdigit

\* The value check_rate_limit returns: False while the list holds
\* max_attempts entries and the oldest is younger than lockout_duration
check_rate_limit(attempts, current_time) ==
    ~ (/\ Len(attempts) >= max_attempts
       /\ current_time - attempts[1] < lockout_duration)

\* The list check_rate_limit leaves behind: a full list whose oldest entry
\* has aged out is emptied, any other list is kept
attempts_checked(attempts, current_time) ==
    IF /\ Len(attempts) >= max_attempts
       /\ current_time - attempts[1] >= lockout_duration
    THEN << >>
    ELSE attempts

record_login_attempt(attempts, current_time) == Append(attempts, current_time)

\* What get_user_data returns when it finds nothing or the read raises
None == << >>

\* get_user_data: the first row of the id, is_active turned into a boolean;
\* the result is None or a one-element sequence holding the record
get_user_data(teacher_id, ok) ==
    LET hits == { i \in 1..Len(LoginSheet) :
                    LoginSheet[i].teacher_id = teacher_id }
    IN  IF ~ok \/ hits = {}
        THEN None
        ELSE LET row == LoginSheet[Min(hits)]
             IN  << [teacher_id |-> row.teacher_id, name |-> row.name,
                     pin |-> row.pin, role |-> row.role,
                     is_active |-> (row.is_active = "TRUE")] >>

\* One entry of the history of calls
Call(teacher_id, ok, msg, read) ==
    [teacher_id |-> teacher_id, time |-> now, ok |-> ok, msg |-> msg,
     read |-> read]

\* authenticate returns (ok, msg) without reading the users sheet
auth_return(s, ok, msg) ==
    /\ result' = [result EXCEPT ![s] = Res("authenticate", ok, msg)]
    /\ UNCHANGED <<user_data, failures, authenticated, login_time, last_used>>

\* The form text is refused before the rate limit is looked at
authenticate_format(s, teacher_id, pin) ==
    /\ ~validate_teacher_id(teacher_id) \/ ~validate_pin(pin)
    /\ auth_return(s, FALSE,
                   IF ~validate_teacher_id(teacher_id)
                   THEN "Invalid teacher ID format"
                   ELSE "Invalid PIN format")
    /\ UNCHANGED <<login_attempts, auth_log>>

\* authenticate past the two format checks
authenticate_checked(s, teacher_id, pin, ok) ==
    LET attempts == login_attempts[s][teacher_id]
        checked == attempts_checked(attempts, now)
        user == get_user_data(teacher_id, ok)
        Attempts(list) ==
            login_attempts' =
                [login_attempts EXCEPT ![s][teacher_id] = list]
        Log(success, msg, read) ==
            auth_log' = [auth_log EXCEPT
                           ![s] = Append(@, Call(teacher_id, success, msg, read))]
    IN  /\ validate_teacher_id(teacher_id)
        /\ validate_pin(pin)
        /\ Len(auth_log[s]) < MaxCalls
        /\ IF ~check_rate_limit(attempts, now)
           THEN /\ ok
                /\ auth_return(s, FALSE, "Account temporarily locked")
                /\ Log(FALSE, "Account temporarily locked", FALSE)
                /\ UNCHANGED login_attempts
           ELSE /\ StoreCall(ok)
                /\ IF user = None
                   THEN /\ Attempts(record_login_attempt(checked, now))
                        /\ result' = [result EXCEPT ![s] =
                              Res("authenticate", FALSE, "Invalid credentials")]
                        /\ Log(FALSE, "Invalid credentials", TRUE)
                        /\ UNCHANGED <<user_data, authenticated, login_time,
                                       last_used>>
                   ELSE IF ~user[1].is_active
                   THEN /\ Attempts(checked)
                        /\ result' = [result EXCEPT ![s] =
                              Res("authenticate", FALSE, "Account is inactive")]
                        /\ Log(FALSE, "Account is inactive", TRUE)
                        /\ UNCHANGED <<user_data, authenticated, login_time,
                                       last_used>>
                   ELSE IF pin # user[1].pin
                   THEN /\ Attempts(record_login_attempt(checked, now))
                        /\ result' = [result EXCEPT ![s] =
                              Res("authenticate", FALSE, "Invalid credentials")]
                        /\ Log(FALSE, "Invalid credentials", TRUE)
                        /\ UNCHANGED <<user_data, authenticated, login_time,
                                       last_used>>
                   ELSE /\ Attempts(checked)
                        /\ authenticated' = [authenticated EXCEPT ![s] = TRUE]
                        /\ user_data' = [user_data EXCEPT ![s] = user[1]]
                        /\ login_time' = [login_time EXCEPT ![s] = <<now>>]
                        /\ last_used' = [last_used EXCEPT ![s] = now]
                        /\ result' = [result EXCEPT ![s] =
                              Res("authenticate", TRUE, "Login successful")]
                        /\ Log(TRUE, "Login successful", TRUE)

\* The login form is submitted (main.py line 115): one call of authenticate
authenticate(s) ==
    /\ pc[s] = "idle"
    /\ \E teacher_id \in LoginIds, pin \in LoginPins :
         \/ authenticate_format(s, teacher_id, pin)
         \/ \E ok \in Outcomes : authenticate_checked(s, teacher_id, pin, ok)
    /\ UNCHANGED <<ledger, drafts, cache, draft, pc, loc, now, decisions>>

\* time.time() moves on
clock_tick ==
    /\ now + TickSeconds <= MaxClock
    /\ now' = now + TickSeconds
    /\ UNCHANGED <<ledger, drafts, cache, user_data, draft, pc, loc, result,
                   failures, decisions, login_attempts, auth_log>>
    /\ UNCHANGED <<authenticated, login_time, last_used>>

\* Nobody is logged in
InitAuth ==
    /\ InitStore
    /\ LoggedOut
    /\ user_data = [s \in Sessions |-> None]
    /\ draft = [s \in Sessions |-> NewDraft]
    /\ pc = [s \in Sessions |-> "idle"]
    /\ loc = [s \in Sessions |-> Idle]
    /\ result = [s \in Sessions |-> Res("none", TRUE, "")]

NextAuth ==
    \/ \E s \in LoginSessions : authenticate(s)
    \/ clock_tick

SpecAuth == InitAuth /\ [][NextAuth]_vars

---------------------------------------------------------------------------
(* utils.py and main.py: the page behind require_auth *)

\* seconds
session_timeout == 1800

\* Seconds between two uses of a session
SessionTick == 900

MaxSessionClock == 2700

\* logout of utils.py, and the Logout button of main.py: every key of the
\* session is deleted; the rerun that follows sets authenticated to False
session_cleared(s) ==
    /\ authenticated' = [authenticated EXCEPT ![s] = FALSE]
    /\ user_data' = [user_data EXCEPT ![s] = None]
    /\ login_time' = [login_time EXCEPT ![s] = << >>]
    /\ login_attempts' = [login_attempts EXCEPT ![s] = NoAttempts]

\* check_session_timeout finds the login older than the timeout
timed_out(s) ==
    /\ login_time[s] # << >>
    /\ now - login_time[s][1] > session_timeout

\* require_auth lets the call through to the function it wraps
require_auth_passes(s) ==
    /\ ~timed_out(s)
    /\ authenticated[s]

\* The login page of main.py: the user types the id and PIN of T100
login(s) ==
    /\ pc[s] = "idle"
    /\ ~authenticated[s]
    /\ \E ok \in Outcomes : authenticate_checked(s, "T100", "1234", ok)
    /\ UNCHANGED <<ledger, drafts, cache, draft, pc, loc, now, decisions>>

\* render_dashboard, wrapped by require_auth
render_dashboard(s) ==
    /\ pc[s] = "idle"
    /\ IF timed_out(s)
       THEN /\ session_cleared(s)
            /\ result' = [result EXCEPT ![s] =
                  Res("render_dashboard", FALSE, "rerun")]
            /\ UNCHANGED last_used
       ELSE IF ~require_auth_passes(s)
       THEN /\ result' = [result EXCEPT ![s] =
                  Res("render_dashboard", FALSE,
                      "Please login to access this page")]
            /\ UNCHANGED <<authenticated, user_data, login_time,
                           login_attempts, last_used>>
       ELSE /\ result' = [result EXCEPT ![s] =
                  Res("render_dashboard", TRUE, "Welcome")]
            /\ last_used' = [last_used EXCEPT ![s] = now]
            /\ UNCHANGED <<authenticated, user_data, login_time,
                           login_attempts>>
    /\ UNCHANGED <<ledger, drafts, cache, draft, pc, loc, now, failures,
                   decisions, auth_log>>

\* The Logout button on the dashboard
logout_click(s) ==
    /\ pc[s] = "idle"
    /\ require_auth_passes(s)
    /\ session_cleared(s)
    /\ result' = [result EXCEPT ![s] = Res("logout", TRUE, "rerun")]
    /\ UNCHANGED <<ledger, drafts, cache, draft, pc, loc, now, failures,
                   decisions, auth_log, last_used>>

session_tick ==
    /\ now + SessionTick <= MaxSessionClock
    /\ now' = now + SessionTick
    /\ UNCHANGED <<ledger, drafts, cache, user_data, draft, pc, loc, result,
                   failures, decisions, login_attempts, auth_log,
                   authenticated, login_time, last_used>>

NextSession ==
    \/ \E s \in LoginSessions : login(s)
    \/ \E s \in LoginSessions : render_dashboard(s)
    \/ \E s \in LoginSessions : logout_click(s)
    \/ session_tick

SpecSession == InitAuth /\ [][NextSession]_vars

---------------------------------------------------------------------------
(* Properties of app.py *)

Unset == {"", " "}

DecisionCols == {"status", "approved_by", "approved_date", "comments"}

\* The session s takes a step of its running handler
Steps(s) == pc'[s] # pc[s]

\* C1: under any interleaving of the submissions of two sessions, each reading
\* the row count (through the read cache) and then appending, no two ledger
\* entries carry the same id.  Stated for runs in which no store call fails.
C1_UniqueIdsUnderConcurrency ==
    failures = 0 =>
        \A i, j \in 1..Len(ledger) : i # j => ledger[i].id # ledger[j].id

\* C2: a status write of update_expense_status that finds its entry already
\* approved or rejected changes nothing in the ledger (the call is refused).
C2_DecidedOnce ==
    [][\A s \in Sessions :
          ( /\ pc[s] = "upd_status"
            /\ Steps(s)
            /\ loc[s].row_number - 1 <= Len(ledger)
            /\ ledger[loc[s].row_number - 1].status \in Decisions )
          => ledger' = ledger]_vars

\* C8: no ledger entry is approved or rejected while its approver or its
\* approval date is still unset.
C8_DecisionWrittenAtomically ==
    \A i \in 1..Len(ledger) :
        ledger[i].status \in Decisions =>
            /\ ledger[i].approved_by \notin Unset
            /\ ledger[i].approved_date \notin Unset

\* C9: a step changes only the decision cells of the entries whose id is the
\* id the deciding session pressed the button for, and removes no entry.
C9_DecisionFrame ==
    [][/\ Len(ledger') >= Len(ledger)
       /\ \A i \in 1..Len(ledger) :
             /\ \A c \in LedgerCols \ DecisionCols : ledger'[i][c] = ledger[i][c]
             /\ ledger'[i] # ledger[i] =>
                   \E s \in Sessions :
                      /\ loc[s].op = "decide"
                      /\ Steps(s)
                      /\ ledger[i].id = loc[s].id]_vars

\* C24: a step that changes the status, approver, approval date or comments
\* cell of a ledger entry is a step of the decision of a session whose user
\* has role admin.
C24_OnlyAdminsDecide ==
    [][\A i \in 1..Len(ledger) :
          (\E c \in DecisionCols : ledger'[i][c] # ledger[i][c])
          => \E s \in Sessions :
                /\ Steps(s)
                /\ loc[s].op = "decide"
                /\ user_data[s].role = "admin"]_vars

\* An entry has been decided while a member is logged in
C24_Witness ==
    /\ \E s \in Sessions : user_data[s].role = "member"
    /\ \E i \in 1..Len(ledger) : ledger[i].status \in Decisions

\* The session s starts a handler that reads the expenses sheet through
\* read_sheet_to_df
ReadsExpenses(s) == pc[s] = "idle" /\ pc'[s] \in {"append", "upd_status"}

\* C25: when the last thing a session did was a successful write (an appended
\* row, a decision), its next read of the expenses sheet, if it raises
\* nothing, returns the frame of the sheet as it is now.
C25_ReadYourWrites ==
    [][\A s \in Sessions :
          (/\ ReadsExpenses(s)
           /\ result[s].op \in {"submit", "decide"}
           /\ result[s].ok
           /\ failures' = failures)
          => cache'["expenses"] =
                [cached |-> TRUE, df |-> DataFrame(Sheet("expenses"))]]_vars

\* The same, for runs in which no store call raises
C25_ReadYourWritesNoFailure ==
    [][\A s \in Sessions :
          (/\ ReadsExpenses(s)
           /\ result[s].op \in {"submit", "decide"}
           /\ result[s].ok
           /\ failures' = 0)
          => cache'["expenses"] =
                [cached |-> TRUE, df |-> DataFrame(Sheet("expenses"))]]_vars

---------------------------------------------------------------------------
(* Properties of dev_app_simple.py *)

DecideStep(s) == result'[s] # result[s] /\ result'[s].op = "decide"

\* C7: setStatus by an admin on an existing pending entry, with every store
\* call succeeding, reports success and leaves the entry with the requested
\* status, the approver, an approval timestamp and the given comments.
C7_SetStatusSucceeds ==
    [][\A s \in Sessions :
          (/\ DecideStep(s)
           /\ failures' = failures
           /\ \E i \in 1..Len(ledger) :
                 ledger[i].id = result'[s].id /\ ledger[i].status = "pending")
          => /\ result'[s].ok
             /\ \E i \in 1..Len(ledger') :
                   /\ ledger'[i].id = result'[s].id
                   /\ ledger'[i].status = result'[s].status
                   /\ ledger'[i].approved_by = result'[s].approver
                   /\ ledger'[i].approved_date \notin Unset
                   /\ ledger'[i].comments = result'[s].comments]_vars

\* C10: setStatus with an id that no ledger entry carries fails and writes
\* nothing; when the ledger could be read, the failure is NotFound.
C10_UnknownIdNotFound ==
    [][\A s \in Sessions :
          (DecideStep(s) /\ \A i \in 1..Len(ledger) : ledger[i].id # result'[s].id)
          => /\ ~result'[s].ok
             /\ ledger' = ledger
             /\ (failures' = failures => result'[s].msg = "not_found")]_vars

C10_Witness ==
    \E s \in Sessions :
        /\ result[s].op = "decide"
        /\ result[s].msg = "not_found"
        /\ ledger # << >>
        /\ \A i \in 1..Len(ledger) : ledger[i].id # result[s].id

---------------------------------------------------------------------------
(* Properties of dev_app.py *)

\* C6: a submit of a draft holding n >= 1 items added through the form, with
\* every store call succeeding, reports success; the ledger gains n entries of
\* that user, pending, with empty approver, approval date and comments; and
\* the stored draft becomes submitted.
C6_SubmitOfAddedItemsSucceeds ==
    \A s \in Sessions :
        (/\ pc[s] = "idle"
         /\ result[s].op = "submit"
         /\ result[s].n >= 1
         /\ failures = 0)
        => /\ result[s].ok
           /\ result[s].appended = result[s].n
           /\ Len(ledger) >= result[s].n
           /\ \A i \in 1..Len(ledger) :
                 /\ ledger[i].teacher_id = user_data[s].teacher_id
                 /\ ledger[i].status = "pending"
                 /\ ledger[i].approved_by = ""
                 /\ ledger[i].approved_date = ""
                 /\ ledger[i].comments = ""
           /\ \E i \in DraftMatches(drafts, user_data[s].teacher_id) :
                 drafts[i].status = "submitted"

---------------------------------------------------------------------------
(* Properties of the drafts of dev_app_simple.py *)

SubmitEmptyStep(s) ==
    /\ pc[s] = "idle"
    /\ pc'[s] = "idle"
    /\ draft[s].expenses = << >>
    /\ result'[s].op = "submit"
    /\ result'[s] # result[s]

\* C11: submit of a draft with zero items reports failure (EmptyDraft), appends
\* no ledger entry and leaves every stored draft, its status included, as it was.
C11_EmptyDraftRejected ==
    [][\A s \in Sessions :
          SubmitEmptyStep(s) =>
              /\ ~result'[s].ok
              /\ result'[s].msg = "no_expenses"
              /\ ledger' = ledger
              /\ drafts' = drafts]_vars

C11_Witness ==
    \E s \in Sessions :
        /\ result[s].op = "submit"
        /\ result[s].msg = "no_expenses"
        /\ draft[s].expenses = << >>
        /\ \E i \in DraftMatches(drafts, user_data[s].teacher_id) :
              drafts[i].status = "draft"

SaveEnds(s) ==
    /\ pc[s] \in {"save_cell", "save_append"}
    /\ pc'[s] = "idle"
    /\ loc[s].op = "save"
    /\ result'[s].ok

\* C12: a load that follows a successful save of the same key, with no other
\* writer in between, returns the saved items in order and the saved status.
C12_SaveLoadRoundTrip ==
    [][\A s \in Sessions :
          SaveEnds(s) =>
              /\ load_draft(user_data[s].teacher_id, TRUE)'.expenses
                    = json_loads(loc[s].data.expenses)
              /\ load_draft(user_data[s].teacher_id, TRUE)'.status
                    = loc[s].data.status]_vars

\* The item has every required field and a date that parses
WellFormed(e) ==
    /\ {"date", "category", "vendor", "description", "amount", "id"} \subseteq DOMAIN e
    /\ e.date = "2024-03-01"

\* C13: save is all-or-nothing on validation: a save reaches its first store
\* call only when every item of its list is well formed, whatever the position
\* of a bad item; a rejected save reports failure and leaves the drafts table
\* as it was.
C13_SaveValidatesAll ==
    [][\A s \in Sessions :
          /\ (pc[s] = "idle" /\ pc'[s] = "save_find") =>
                 \A k \in 1..Len(json_loads(loc'[s].data.expenses)) :
                     WellFormed(json_loads(loc'[s].data.expenses)[k])
          /\ (/\ pc[s] = "idle"
              /\ result'[s] # result[s]
              /\ result'[s].msg = "invalid_expense") =>
                 /\ ~result'[s].ok
                 /\ pc'[s] = "idle"
                 /\ drafts' = drafts
                 /\ failures' = failures]_vars

C13_Witness ==
    \E s \in Sessions :
        /\ result[s].op = "save"
        /\ result[s].msg = "invalid_expense"
        /\ pc[s] = "idle"
        /\ \E i \in 1..Len(drafts) :
              IsJson(drafts[i].expenses) /\ json_loads(drafts[i].expenses) # << >>

\* C14: amounts are never negative in stored data: a save with a negative
\* amount is rejected, so every stored draft item has amount >= 0.
C14_StoredAmountsNonNegative ==
    \A i \in 1..Len(drafts) :
        IsJson(drafts[i].expenses) =>
            \A k \in 1..Len(json_loads(drafts[i].expenses)) :
                json_loads(drafts[i].expenses)[k].amount >= 0

\* C15: across successful saves of one key the stored creation date stays the
\* one the first save wrote (checked on the runs where every store call
\* succeeds).
C15_CreationDateKept ==
    [][\A i \in 1..Len(drafts) :
          failures' = 0 => drafts'[i].created_date = drafts[i].created_date]_vars

KeyRows == DraftMatches(drafts, "T100")

\* C16: with saves run one after another, the drafts table holds at most one
\* row per (owner, month, year) key.
C16_OneRowPerKey == Cardinality(KeyRows) <= 1

\* The same without store failures
C16_OneRowPerKeyNoFailure == failures = 0 => Cardinality(KeyRows) <= 1

\* C17: when two sessions of one user save the same key concurrently, the
\* drafts table still ends with at most one row for the key (checked on the
\* runs where every store call succeeds).
C17_OneRowPerKeyConcurrent ==
    (failures = 0 /\ AllIdle) => Cardinality(DraftMatches(drafts, "T100")) <= 1

LoadStep(s) ==
    /\ pc[s] = "idle"
    /\ pc' = pc
    /\ now' = now
    /\ result'[s].op = "load"

\* C18: load never raises: when no row matches the key, or the matching row's
\* expenses cell is not valid JSON, load returns a draft with no items and
\* status new; and load writes nothing to the store.
C18_LoadNeverRaises ==
    [][\A s \in Sessions :
          LoadStep(s) =>
              /\ drafts' = drafts
              /\ {"expenses", "status"} \subseteq DOMAIN draft'[s]
              /\ (\/ DraftMatches(drafts, user_data[s].teacher_id) = {}
                  \/ ~IsJson(drafts[Min(DraftMatches(drafts,
                                        user_data[s].teacher_id))].expenses))
                 => draft'[s] = NewDraft]_vars

C18_Witness ==
    \E s \in Sessions :
        /\ result[s].op = "load"
        /\ draft[s] = NewDraft
        /\ \E i \in DraftMatches(drafts, user_data[s].teacher_id) :
              ~IsJson(drafts[i].expenses)

\* C29: every item of the draft that load returns passes the validation
\* that save applies (a fresh draft has no items).
C29_LoadValidatesLikeSave ==
    [][\A s \in FormSessions :
          LoadStep(s) =>
              \A k \in 1..Len(draft'[s].expenses) :
                  validate_expense(draft'[s].expenses[k])]_vars

\* The last _update_cell of a save of an existing row: it fails, or it is
\* the update of the last column
SaveFails(s) ==
    /\ pc[s] = "save_cell"
    /\ pc'[s] = "idle"
    /\ result'[s].msg = "store_error"

SaveSucceeds(s) ==
    /\ pc[s] = "save_cell"
    /\ pc'[s] = "idle"
    /\ result'[s].msg # "store_error"

\* C30: a save of an existing draft that reports failure leaves the stored
\* row as it was before the save, and one that reports success leaves every
\* column of the row holding the new values.
C30_SaveAllOrNothing ==
    [][\A s \in FormSessions :
          /\ SaveFails(s) => drafts'[loc[s].row - 1] = loc[s].before
          /\ SaveSucceeds(s) =>
                \A col \in DOMAIN loc[s].data :
                    drafts'[loc[s].row - 1][col] = loc[s].data[col]]_vars

\* The success half of C30 alone (holds)
C30_SuccessWritesEveryColumn ==
    [][\A s \in FormSessions :
          SaveSucceeds(s) =>
              \A col \in DOMAIN loc[s].data :
                  drafts'[loc[s].row - 1][col] = loc[s].data[col]]_vars

---------------------------------------------------------------------------
(* Properties of auth_manager.py *)

Locked == "Account temporarily locked"

\* The calls of session s for one id, oldest first
CallsFor(s, id) == SelectSeq(auth_log[s], LAMBDA c : c.teacher_id = id)

\* The calls among the first n of a list that were checked against the
\* rate limit and let through (every call but the locked refusals)
LetThrough(calls, n) ==
    SelectSeq(SubSeq(calls, 1, n), LAMBDA c : c.msg # Locked)

\* C19: when the last three calls for an id that were not refused as locked
\* all failed, and the oldest of the three is less than lockout_duration old,
\* the next call for the id is refused as locked and the users sheet is not
\* read.
C19_LockedAfterThreeFailures ==
    \A s \in LoginSessions, id \in LoginIds :
        LET calls == CallsFor(s, id)
        IN  \A k \in 1..Len(calls) :
                LET before == LetThrough(calls, k - 1)
                    n == Len(before)
                IN  (/\ n >= 3
                     /\ \A j \in (n - 2)..n : ~before[j].ok
                     /\ calls[k].time - before[n - 2].time < lockout_duration)
                    => (calls[k].msg = Locked /\ ~calls[k].read)

\* C20: a call is refused as locked only when the three calls before it for
\* the same id all failed, so no failure from before a success counts.
C20_SuccessClearsFailures ==
    \A s \in LoginSessions, id \in LoginIds :
        LET calls == CallsFor(s, id)
        IN  \A k \in 1..Len(calls) :
                calls[k].msg = Locked
                => (k >= 4 /\ \A j \in (k - 3)..(k - 1) : ~calls[j].ok)

\* A step in which session s calls authenticate(teacher_id, pin)
Authenticates(s, teacher_id, pin) ==
    \/ authenticate_format(s, teacher_id, pin)
    \/ \E ok \in BOOLEAN : authenticate_checked(s, teacher_id, pin, ok)

\* The text is not exactly 4 numeric characters
NotFourDigits(pin) == TextShape[pin].len # 4 \/ ~TextShape[pin].isdigit

FormatMessages == {"Invalid teacher ID format", "Invalid PIN format"}

\* C21: a call of authenticate with an empty id, or with a PIN that is not
\* exactly 4 numeric characters, returns failure with a format message, reads
\* nothing from the users sheet (no store call, no entry in the history of
\* checked calls) and leaves login_attempts and the session's user_data,
\* authenticated and login_time as they were.
C21_MalformedInputRefused ==
    [][\A s \in LoginSessions, teacher_id \in LoginIds, pin \in LoginPins :
         (/\ teacher_id = "" \/ NotFourDigits(pin)
          /\ Authenticates(s, teacher_id, pin))
         => (/\ ~result'[s].ok
             /\ result'[s].msg \in FormatMessages
             /\ UNCHANGED <<login_attempts, user_data, authenticated,
                            login_time, failures, auth_log>>)]_vars

\* A PIN of the wrong shape was refused for an id with a recorded attempt
C21_Witness ==
    \E s \in LoginSessions :
        /\ result[s] = Res("authenticate", FALSE, "Invalid PIN format")
        /\ login_attempts[s]["T100"] # << >>

\* C22: every call with a well-formed id and PIN that fails without being
\* refused as locked (unknown id, inactive account, wrong PIN) returns the
\* same message, "Invalid credentials", and is recorded as one more attempt
\* of the id.
C22_FailuresLookAlike ==
    [][\A s \in LoginSessions, teacher_id \in LoginIds, pin \in LoginPins :
         (/\ validate_teacher_id(teacher_id)
          /\ validate_pin(pin)
          /\ Authenticates(s, teacher_id, pin)
          /\ ~result'[s].ok
          /\ result'[s].msg # Locked)
         => (/\ result'[s].msg = "Invalid credentials"
             /\ login_attempts'[s][teacher_id] =
                  record_login_attempt(
                      attempts_checked(login_attempts[s][teacher_id], now),
                      now))]_vars

\* C26: a call of authenticate during which the read of the users sheet
\* raises is reported neither as a success nor as "Invalid credentials", and
\* records no login attempt.
C26_StoreFailureIsNotALogicalOutcome ==
    [][\A s \in LoginSessions :
          (failures' > failures /\ result'[s] # result[s])
          => (/\ ~result'[s].ok
              /\ result'[s].msg # "Invalid credentials"
              /\ login_attempts'[s] = login_attempts[s])]_vars

---------------------------------------------------------------------------
(* Properties of utils.py and main.py *)

\* C23: a call of the guarded page in a session that is not authenticated, or
\* that was last used more than session_timeout ago, does not run the page
\* and leaves the session unauthenticated; a call in an authenticated session
\* last used less than session_timeout ago runs the page and keeps the
\* session.
C23_GuardAndIdleTimeout ==
    [][\A s \in LoginSessions :
         render_dashboard(s) =>
            /\ (~authenticated[s] \/ now - last_used[s] > session_timeout)
               => (~result'[s].ok /\ ~authenticated'[s])
            /\ (authenticated[s] /\ now - last_used[s] < session_timeout)
               => (result'[s].ok /\ authenticated'[s])]_vars

====
